---- MODULE Spec2Model ----
(***************************************************************************)
(* Model of app/core/db.py: DocumentDatabase, a document store kept in a   *)
(* SQLite file.  Text (JSON blobs, SQL statements, Python strings) is a    *)
(* sequence of symbols: a punctuation character, or a word that contains   *)
(* no punctuation.  json.dumps / json.loads, the f-string rendering of    *)
(* the SELECT statement and SQLite's tokenizer, statement splitting and    *)
(* expression evaluation are computed on these sequences.                  *)
(***************************************************************************)
EXTENDS Integers, Sequences, FiniteSets, TLC

(* ---------------------------------------------------------------- bounds *)
\* most rows the connection holds over all collections
MaxRows == 2
\* longest list handed to add_all
MaxBatch == 2

(* ------------------------------------------------------- Python values *)
\* a Python value: t is its type, v its text (str, int, bool), sub the
\* items of a dict in insertion order
PyStr(v) == [t |-> "str", v |-> v, sub |-> <<>>]
PyInt(v) == [t |-> "int", v |-> v, sub |-> <<>>]
PyBool(v) == [t |-> "bool", v |-> v, sub |-> <<>>]
PyNone == [t |-> "none", v |-> <<>>, sub |-> <<>>]
PyDict(items) == [t |-> "dict", v |-> <<>>, sub |-> items]
\* a value json cannot encode (a set, an arbitrary object)
PyObj == [t |-> "obj", v |-> <<>>, sub |-> <<>>]
Item(k, val) == [k |-> k, val |-> val]

Digits == {"0", "1", "5", "6"}
Punct == {"'", "\"", "\\", ";", "--", " ", "(", ")", ",", "=", "*", "$", ".",
          "{", "}", ":"}

RECURSIVE Join(_, _)
\* sep.join(parts)
Join(parts, sep) ==
  IF parts = <<>> THEN <<>>
  ELSE IF Len(parts) = 1 THEN parts[1]
  ELSE parts[1] \o sep \o Join(Tail(parts), sep)

(* ------------------------------------------------------------ json.dumps *)
RECURSIVE Escape(_)
\* json string escaping: a double quote and a backslash get a backslash
Escape(s) ==
  IF s = <<>> THEN <<>>
  ELSE IF Head(s) \in {"\"", "\\"} THEN <<"\\", Head(s)>> \o Escape(Tail(s))
  ELSE <<Head(s)>> \o Escape(Tail(s))

RECURSIVE dumps(_)
\* json.dumps(val): [err, s]; a dict key is always written as a string
dumps(val) ==
  CASE val.t = "str" -> [err |-> "none", s |-> <<"\"">> \o Escape(val.v) \o <<"\"">>]
    [] val.t = "int" -> [err |-> "none", s |-> val.v]
    [] val.t = "bool" ->
         [err |-> "none", s |-> IF val.v = <<"True">> THEN <<"true">> ELSE <<"false">>]
    [] val.t = "none" -> [err |-> "none", s |-> <<"null">>]
    [] val.t = "dict" ->
         LET parts == [i \in 1..Len(val.sub) |-> dumps(val.sub[i].val)]
             bad == {i \in 1..Len(val.sub) : parts[i].err # "none"}
         IN IF bad # {} THEN [err |-> "TypeError", s |-> <<>>]
            ELSE [err |-> "none",
                  s |-> <<"{">>
                        \o Join([i \in 1..Len(val.sub) |->
                                   <<"\"">> \o Escape(val.sub[i].k) \o <<"\"", ":", " ">>
                                   \o parts[i].s],
                                <<",", " ">>)
                        \o <<"}">>]
    [] OTHER -> [err |-> "TypeError", s |-> <<>>]

(* ------------------------------------------------------------ json.loads *)
RECURSIVE SkipWs(_, _)
SkipWs(s, i) == IF i <= Len(s) /\ s[i] = " " THEN SkipWs(s, i + 1) ELSE i

RECURSIVE ScanString(_, _, _)
\* s[i] is the first symbol after an opening double quote; acc the text so far
ScanString(s, i, acc) ==
  IF i > Len(s) THEN [ok |-> FALSE, v |-> acc, pos |-> i]
  ELSE IF s[i] = "\"" THEN [ok |-> TRUE, v |-> acc, pos |-> i + 1]
  ELSE IF s[i] = "\\" THEN
    IF i + 1 > Len(s) THEN [ok |-> FALSE, v |-> acc, pos |-> i]
    ELSE ScanString(s, i + 2, Append(acc, s[i + 1]))
  ELSE ScanString(s, i + 1, Append(acc, s[i]))

RECURSIVE ScanDigits(_, _, _)
ScanDigits(s, i, acc) ==
  IF i <= Len(s) /\ s[i] \in Digits THEN ScanDigits(s, i + 1, Append(acc, s[i]))
  ELSE [v |-> acc, pos |-> i]

JsonFail(i) == [ok |-> FALSE, val |-> PyNone, pos |-> i]

RECURSIVE ParseValue(_, _), ParseItems(_, _, _), AddItem(_, _, _, _, _)
\* the value that starts at s[i]: [ok, val, pos]
ParseValue(s, i0) ==
  LET i == SkipWs(s, i0) IN
  IF i > Len(s) THEN JsonFail(i)
  ELSE IF s[i] = "\"" THEN
    LET r == ScanString(s, i + 1, <<>>)
    IN IF r.ok THEN [ok |-> TRUE, val |-> PyStr(r.v), pos |-> r.pos] ELSE JsonFail(i)
  ELSE IF s[i] \in Digits THEN
    LET r == ScanDigits(s, i, <<>>)
    IN [ok |-> TRUE, val |-> PyInt(r.v), pos |-> r.pos]
  ELSE IF s[i] = "true" THEN [ok |-> TRUE, val |-> PyBool(<<"True">>), pos |-> i + 1]
  ELSE IF s[i] = "false" THEN [ok |-> TRUE, val |-> PyBool(<<"False">>), pos |-> i + 1]
  ELSE IF s[i] = "null" THEN [ok |-> TRUE, val |-> PyNone, pos |-> i + 1]
  ELSE IF s[i] = "{" THEN
    LET j == SkipWs(s, i + 1)
    IN IF j <= Len(s) /\ s[j] = "}" THEN [ok |-> TRUE, val |-> PyDict(<<>>), pos |-> j + 1]
       ELSE ParseItems(s, j, <<>>)
  ELSE JsonFail(i)

\* the items of an object once the item that starts at s[i] is parsed: key
\* its key, r its value; a repeated key keeps its first position and takes
\* the last value, as a dict does
AddItem(s, i, acc, key, r) ==
  LET e == SkipWs(s, r.pos)
      old == {n \in 1..Len(acc) : acc[n].k = key}
      acc2 == IF old = {} THEN Append(acc, Item(key, r.val))
              ELSE [n \in 1..Len(acc) |-> IF n \in old THEN Item(key, r.val) ELSE acc[n]]
  IN IF ~r.ok \/ e > Len(s) THEN JsonFail(i)
     ELSE IF s[e] = "}" THEN [ok |-> TRUE, val |-> PyDict(acc2), pos |-> e + 1]
     ELSE IF s[e] = "," THEN ParseItems(s, e + 1, acc2)
     ELSE JsonFail(e)

\* the items of an object from s[i] on, up to the closing brace
ParseItems(s, i0, acc) ==
  LET i == SkipWs(s, i0) IN
  IF i > Len(s) \/ s[i] # "\"" THEN JsonFail(i)
  ELSE
    LET key == ScanString(s, i + 1, <<>>)
        c == SkipWs(s, key.pos)
    IN IF ~key.ok \/ c > Len(s) \/ s[c] # ":" THEN JsonFail(i)
       ELSE AddItem(s, i, acc, key.v, ParseValue(s, c + 1))

\* the outcome of json.loads(s) once r, the value at the start of s, is
\* parsed: nothing but blanks may follow it
Whole(s, r) ==
  IF r.ok /\ SkipWs(s, r.pos) > Len(s) THEN [err |-> "none", val |-> r.val]
  ELSE [err |-> "JSONDecodeError", val |-> PyNone]

\* json.loads(s): [err, val]
loads(s) == Whole(s, ParseValue(s, 1))

RECURSIVE PyEq(_, _)
\* Python ==: dicts are equal when they map the same keys to equal values,
\* whatever the insertion order
PyEq(a, b) ==
  IF a.t = "dict" /\ b.t = "dict" THEN
    /\ Len(a.sub) = Len(b.sub)
    /\ \A i \in 1..Len(a.sub) :
         \E j \in 1..Len(b.sub) : a.sub[i].k = b.sub[j].k /\ PyEq(a.sub[i].val, b.sub[j].val)
  ELSE a.t = b.t /\ a.v = b.v /\ a.t # "obj"

(* ------------------------------------------------------------ SQL values *)
SqlNull == [t |-> "null", v |-> <<>>]
SqlInt(v) == [t |-> "int", v |-> v]
SqlText(v) == [t |-> "text", v |-> v]

RECURSIVE StripZeros(_)
StripZeros(v) == IF Len(v) > 1 /\ Head(v) = "0" THEN StripZeros(Tail(v)) ELSE v

RECURSIVE Render(_)
\* the JSON text SQLite returns for a value (no blanks after , and :)
Render(val) ==
  CASE val.t = "str" -> <<"\"">> \o Escape(val.v) \o <<"\"">>
    [] val.t = "int" -> val.v
    [] val.t = "bool" -> IF val.v = <<"True">> THEN <<"true">> ELSE <<"false">>
    [] val.t = "dict" ->
         <<"{">>
         \o Join([i \in 1..Len(val.sub) |->
                    <<"\"">> \o Escape(val.sub[i].k) \o <<"\"", ":">> \o Render(val.sub[i].val)],
                 <<",">>)
         \o <<"}">>
    [] OTHER -> <<"null">>

\* the SQL value json_extract returns for a JSON value
ToSql(val) ==
  CASE val.t = "str" -> SqlText(val.v)
    [] val.t = "int" -> SqlInt(StripZeros(val.v))
    [] val.t = "bool" -> SqlInt(IF val.v = <<"True">> THEN <<"1">> ELSE <<"0">>)
    [] val.t = "dict" -> SqlText(Render(val))
    [] OTHER -> SqlNull

\* truth of a value in a WHERE clause: "T", "F" or "N" (NULL); text is cast
\* to the number its leading digits spell
Truth(val) ==
  CASE val.t = "null" -> "N"
    [] val.t = "int" -> IF \E i \in 1..Len(val.v) : val.v[i] # "0" THEN "T" ELSE "F"
    [] OTHER ->
         LET d == ScanDigits(val.v, 1, <<>>).v
         IN IF \E i \in 1..Len(d) : d[i] # "0" THEN "T" ELSE "F"

FromTruth(b) == IF b = "N" THEN SqlNull ELSE SqlInt(IF b = "T" THEN <<"1">> ELSE <<"0">>)

\* a = b on values without column affinity: NULL if either is NULL, and an
\* integer never equals a text
SqlEq(a, b) ==
  IF a.t = "null" \/ b.t = "null" THEN SqlNull
  ELSE FromTruth(IF a = b THEN "T" ELSE "F")

SqlAnd(a, b) ==
  IF a = "F" \/ b = "F" THEN "F" ELSE IF a = "N" \/ b = "N" THEN "N" ELSE "T"

SqlOr(a, b) ==
  IF a = "T" \/ b = "T" THEN "T" ELSE IF a = "N" \/ b = "N" THEN "N" ELSE "F"

(* --------------------------------------------------------- SQL tokenizer *)
Tok(t, v) == [t |-> t, v |-> v]

RECURSIVE ScanQuoted(_, _, _, _)
\* s[i] is the first symbol after an opening quote q; a doubled q stands
\* for one q inside the literal
ScanQuoted(s, i, q, acc) ==
  IF i > Len(s) THEN [ok |-> FALSE, v |-> acc, pos |-> i]
  ELSE IF s[i] = q THEN
    IF i + 1 <= Len(s) /\ s[i + 1] = q THEN ScanQuoted(s, i + 2, q, Append(acc, q))
    ELSE [ok |-> TRUE, v |-> acc, pos |-> i + 1]
  ELSE ScanQuoted(s, i + 1, q, Append(acc, s[i]))

RECURSIVE ScanWord(_, _, _)
ScanWord(s, i, acc) ==
  IF i <= Len(s) /\ s[i] \notin Punct THEN ScanWord(s, i + 1, Append(acc, s[i]))
  ELSE [v |-> acc, pos |-> i]

RECURSIVE Lex(_, _, _)
\* the tokens of the first statement of s and the text after its semicolon
Lex(s, i, acc) ==
  IF i > Len(s) THEN [err |-> "none", toks |-> acc, tail |-> <<>>]
  ELSE IF s[i] = " " THEN Lex(s, i + 1, acc)
  ELSE IF s[i] = "--" THEN [err |-> "none", toks |-> acc, tail |-> <<>>]
  ELSE IF s[i] = ";" THEN [err |-> "none", toks |-> acc, tail |-> SubSeq(s, i + 1, Len(s))]
  ELSE IF s[i] \in {"'", "\""} THEN
    LET r == ScanQuoted(s, i + 1, s[i], <<>>)
    IN IF r.ok THEN Lex(s, r.pos, Append(acc, Tok(IF s[i] = "'" THEN "str" ELSE "dq", r.v)))
       ELSE [err |-> "unrecognized token", toks |-> acc, tail |-> <<>>]
  ELSE IF s[i] \in {"(", ")", ",", "=", "*", "."} THEN
    Lex(s, i + 1, Append(acc, Tok("punct", <<s[i]>>)))
  ELSE IF s[i] \in Punct THEN [err |-> "unrecognized token", toks |-> acc, tail |-> <<>>]
  ELSE
    LET r == ScanWord(s, i, <<>>)
    IN IF s[i] \notin Digits THEN Lex(s, r.pos, Append(acc, Tok("id", r.v)))
       ELSE IF \A n \in 1..Len(r.v) : r.v[n] \in Digits
         THEN Lex(s, r.pos, Append(acc, Tok("num", r.v)))
       ELSE [err |-> "unrecognized token", toks |-> acc, tail |-> <<>>]

RECURSIVE OnlyBlank(_)
\* nothing but blanks and a comment: what may follow the first statement
OnlyBlank(s) ==
  IF s = <<>> THEN TRUE
  ELSE IF s[1] = " " THEN OnlyBlank(Tail(s))
  ELSE s[1] = "--"

(* ---------------------------------------------------------- json_extract *)
RECURSIVE ScanLabel(_, _, _)
ScanLabel(p, i, acc) ==
  IF i <= Len(p) /\ p[i] # "." THEN ScanLabel(p, i + 1, Append(acc, p[i]))
  ELSE [v |-> acc, pos |-> i]

RECURSIVE PathLookup(_, _, _)
\* the member of val that the path p addresses from p[i] on
PathLookup(val, p, i) ==
  IF i > Len(p) THEN [err |-> "none", val |-> ToSql(val)]
  ELSE IF p[i] # "." THEN [err |-> "runtime", val |-> SqlNull]
  ELSE IF val.t # "dict" THEN [err |-> "none", val |-> SqlNull]
  ELSE
    LET lab == ScanLabel(p, i + 1, <<>>)
        hit == {n \in 1..Len(val.sub) : val.sub[n].k = lab.v}
    IN IF lab.v = <<>> THEN [err |-> "runtime", val |-> SqlNull]
       ELSE IF hit = {} THEN [err |-> "none", val |-> SqlNull]
       ELSE PathLookup(val.sub[CHOOSE n \in hit : TRUE].val, p, lab.pos)

\* the member the path p addresses in d, the decoded first argument
Extract(d, p) ==
  IF d.err # "none" THEN [err |-> "runtime", val |-> SqlNull]
  ELSE PathLookup(d.val, p, 2)

\* json_extract(json, path) on SQL values
JsonExtract(json, path) ==
  IF json.t = "null" \/ path.t = "null" THEN [err |-> "none", val |-> SqlNull]
  ELSE IF path.v = <<>> \/ path.v[1] # "$" THEN [err |-> "runtime", val |-> SqlNull]
  ELSE Extract(loads(json.v), path.v)

(* -------------------------------------------------- expression evaluation *)
\* Parsing and evaluation in one pass over the tokens, for the row whose
\* data column holds blob.  err is "prepare" for what SQLite reports when
\* it compiles the statement (syntax, unknown column), "runtime" for what
\* it reports when it meets a row.
ExprFail(e, pos) == [err |-> e, val |-> SqlNull, pos |-> pos]
ExprOk(val, pos) == [err |-> "none", val |-> val, pos |-> pos]
IsPunct(toks, i, c) == i <= Len(toks) /\ toks[i] = Tok("punct", <<c>>)
IsWord(toks, i, w) == i <= Len(toks) /\ toks[i] = Tok("id", <<w>>)
\* of two sub-results the error the statement ends with: a compile error
\* comes first whichever side it is on
Worst(a, b) ==
  IF a.err = "prepare" \/ b.err = "prepare" THEN "prepare"
  ELSE IF a.err # "none" THEN a.err ELSE b.err

\* l OR r, l AND r, l = r on parsed operands: the left side decides alone
\* when it can (short circuit), and an error of either side wins
OrOf(l, r) ==
  IF r.err = "prepare" \/ l.err # "none" THEN ExprFail(Worst(l, r), r.pos)
  ELSE IF Truth(l.val) = "T" THEN ExprOk(l.val, r.pos)
  ELSE IF r.err # "none" THEN ExprFail(r.err, r.pos)
  ELSE ExprOk(FromTruth(SqlOr(Truth(l.val), Truth(r.val))), r.pos)

AndOf(l, r) ==
  IF r.err = "prepare" \/ l.err # "none" THEN ExprFail(Worst(l, r), r.pos)
  ELSE IF Truth(l.val) = "F" THEN ExprOk(l.val, r.pos)
  ELSE IF r.err # "none" THEN ExprFail(r.err, r.pos)
  ELSE ExprOk(FromTruth(SqlAnd(Truth(l.val), Truth(r.val))), r.pos)

EqOf(l, r) ==
  IF l.err # "none" \/ r.err # "none" THEN ExprFail(Worst(l, r), r.pos)
  ELSE ExprOk(SqlEq(l.val, r.val), r.pos)

\* ( e ): the closing parenthesis after the expression e
Paren(toks, e) ==
  IF e.err = "prepare" \/ ~IsPunct(toks, e.pos, ")") THEN ExprFail("prepare", e.pos)
  ELSE [e EXCEPT !.pos = e.pos + 1]

\* x, the value of a function call, as the operand that ends before pos
At(x, pos) == [err |-> x.err, val |-> x.val, pos |-> pos]

\* json_extract(a, b) once both arguments are parsed
Call(toks, a, b) ==
  IF b.err = "prepare" \/ ~IsPunct(toks, b.pos, ")") THEN ExprFail("prepare", b.pos)
  ELSE IF a.err # "none" \/ b.err # "none" THEN ExprFail("runtime", b.pos + 1)
  ELSE At(JsonExtract(a.val, b.val), b.pos + 1)

RECURSIVE ParseOr(_, _, _), ParseOrRest(_, _, _), ParseAnd(_, _, _),
          ParseAndRest(_, _, _), ParseEq(_, _, _), ParseEqRest(_, _, _),
          ParseOperand(_, _, _), SecondArg(_, _, _)
ParseOr(toks, i, blob) == ParseOrRest(toks, ParseAnd(toks, i, blob), blob)

ParseOrRest(toks, l, blob) ==
  IF l.err = "prepare" \/ ~IsWord(toks, l.pos, "OR") THEN l
  ELSE ParseOrRest(toks, OrOf(l, ParseAnd(toks, l.pos + 1, blob)), blob)

ParseAnd(toks, i, blob) == ParseAndRest(toks, ParseEq(toks, i, blob), blob)

ParseAndRest(toks, l, blob) ==
  IF l.err = "prepare" \/ ~IsWord(toks, l.pos, "AND") THEN l
  ELSE ParseAndRest(toks, AndOf(l, ParseEq(toks, l.pos + 1, blob)), blob)

ParseEq(toks, i, blob) == ParseEqRest(toks, ParseOperand(toks, i, blob), blob)

ParseEqRest(toks, l, blob) ==
  IF l.err = "prepare" \/ ~IsPunct(toks, l.pos, "=") THEN l
  ELSE ParseEqRest(toks, EqOf(l, ParseOperand(toks, l.pos + 1, blob)), blob)

\* the second argument of a call whose first argument is a
SecondArg(toks, a, blob) ==
  Call(toks, a, IF a.err # "prepare" /\ IsPunct(toks, a.pos, ",")
                THEN ParseOr(toks, a.pos + 1, blob) ELSE ExprFail("prepare", a.pos))

ParseOperand(toks, i, blob) ==
  IF i > Len(toks) THEN ExprFail("prepare", i)
  ELSE IF toks[i].t = "str" THEN ExprOk(SqlText(toks[i].v), i + 1)
  ELSE IF toks[i].t = "num" THEN ExprOk(SqlInt(StripZeros(toks[i].v)), i + 1)
  ELSE IF toks[i].t = "dq" THEN
    ExprOk(IF toks[i].v = <<"data">> THEN SqlText(blob) ELSE SqlText(toks[i].v), i + 1)
  ELSE IF IsPunct(toks, i, "(") THEN Paren(toks, ParseOr(toks, i + 1, blob))
  ELSE IF toks[i].t = "punct" THEN ExprFail("prepare", i)
  ELSE IF IsWord(toks, i, "json_extract") THEN
    IF ~IsPunct(toks, i + 1, "(") THEN ExprFail("prepare", i)
    ELSE SecondArg(toks, ParseOr(toks, i + 2, blob), blob)
  ELSE IF IsWord(toks, i, "data") THEN ExprOk(SqlText(blob), i + 1)
  ELSE IF toks[i].v \in {<<"True">>, <<"TRUE">>, <<"true">>} THEN ExprOk(SqlInt(<<"1">>), i + 1)
  ELSE IF toks[i].v \in {<<"False">>, <<"FALSE">>, <<"false">>} THEN ExprOk(SqlInt(<<"0">>), i + 1)
  ELSE IF toks[i].v \in {<<"NULL">>, <<"null">>} THEN ExprOk(SqlNull, i + 1)
  ELSE ExprFail("prepare", i)

\* the expression e must use up the statement
UseUp(toks, e) ==
  IF e.err # "prepare" /\ e.pos <= Len(toks) THEN ExprFail("prepare", e.pos) ELSE e

\* the WHERE clause that starts at toks[i], for one row
Where(toks, i, blob) == UseUp(toks, ParseOr(toks, i, blob))


(* ------------------------------------------------------------ the engine *)
\* DocumentDatabase.TABLES: the registry, name -> physical table
TABLES == [issues |-> "issues", rules |-> "rules"]

\* st is what a DocumentDatabase object works on: conn, the state of
\* self._db ("nodb" when __init__ raised before setting it), the tables
\* and rows the connection sees, uncommitted changes included, and file,
\* the committed tables and rows
NoRows == [t \in DOMAIN TABLES |-> <<>>]

Text(w) == <<w>>

\* f"SELECT * FROM {table_name}"
SelectAll(table_name) == <<"SELECT", " ", "*", " ", "FROM", " ">> \o Text(table_name)

\* f"{v}" for the scalar values a query holds
Str(val) == IF val.t = "none" THEN <<"None">> ELSE val.v

\* ' AND '.join(f" json_extract(data, '$.{k}') = {v}" for k, v in query.items())
Cond(query) ==
  Join([i \in 1..Len(query) |->
          <<" ", "json_extract", "(", "data", ",", " ", "'", "$", ".">> \o query[i].k
          \o <<"'", ")", " ", "=", " ">> \o Str(query[i].val)],
       <<" ", "AND", " ">>)

\* f"SELECT * FROM {table_name} WHERE {q}"
SelectWhere(table_name, query) ==
  SelectAll(table_name) \o <<" ", "WHERE", " ">> \o Cond(query)

EmptyBlob == <<"{", "}">>

\* sqlite3_prepare of one tokenized statement: its kind, or the error
Prepare(st, toks) ==
  LET bad == [err |-> "OperationalError", kind |-> "none", table |-> "", wpos |-> 0]
      named(i) == i <= Len(toks) /\ toks[i].t = "id" /\ Len(toks[i].v) = 1
                  /\ toks[i].v[1] \in st.tables
  IN IF IsWord(toks, 1, "SELECT") THEN
       IF Len(toks) = 2 /\ toks[2].t = "num"
         THEN [err |-> "none", kind |-> "const", table |-> "", wpos |-> 0]
       ELSE IF ~(IsPunct(toks, 2, "*") /\ IsWord(toks, 3, "FROM") /\ named(4)) THEN bad
       ELSE IF Len(toks) = 4
         THEN [err |-> "none", kind |-> "all", table |-> toks[4].v[1], wpos |-> 0]
       ELSE IF ~IsWord(toks, 5, "WHERE") \/ Where(toks, 6, EmptyBlob).err = "prepare" THEN bad
       ELSE [err |-> "none", kind |-> "where", table |-> toks[4].v[1], wpos |-> 6]
     ELSE IF IsWord(toks, 1, "DROP") /\ IsWord(toks, 2, "TABLE") /\ named(3) /\ Len(toks) = 3
       THEN [err |-> "none", kind |-> "drop", table |-> toks[3].v[1], wpos |-> 0]
     ELSE bad

\* the rows a SELECT returns from row on: w is its WHERE clause for row,
\* rest what it returns from the rows after it
Keep(row, w, rest) ==
  IF w.err # "none" \/ rest.err # "none" THEN [err |-> "OperationalError", rows |-> <<>>]
  ELSE IF Truth(w.val) = "T" THEN [err |-> "none", rows |-> <<row>> \o rest.rows]
  ELSE rest

RECURSIVE Select(_, _, _, _)
\* the rows from rows[n] on for which the WHERE clause is true
Select(rows, n, toks, wpos) ==
  IF n > Len(rows) THEN [err |-> "none", rows |-> <<>>]
  ELSE Keep(rows[n],
            IF wpos = 0 THEN ExprOk(SqlInt(<<"1">>), 0) ELSE Where(toks, wpos, rows[n]),
            Select(rows, n + 1, toks, wpos))

\* the cursor over the rows r of a statement that leaves st behind
Cursor(r, st) == [err |-> r.err, rows |-> r.rows, st |-> st]

\* running one prepared statement
Step(st, toks, p) ==
  CASE p.kind = "const" -> [err |-> "none", rows |-> <<toks[2].v>>, st |-> st]
    [] p.kind = "drop" ->
         [err |-> "none", rows |-> <<>>,
          st |-> [st EXCEPT !.tables = @ \ {p.table}, !.rows[p.table] = <<>>]]
    [] OTHER -> Cursor(Select(st.rows[p.table], 1, toks, p.wpos), st)

RECURSIVE executescript(_, _)
\* what running every statement of sql would do
executescript(st, sql) ==
  IF st.conn # "open" THEN
    [err |-> IF st.conn = "nodb" THEN "AttributeError" ELSE "ProgrammingError",
     rows |-> <<>>, st |-> st]
  ELSE
    LET l == Lex(sql, 1, <<>>)
        p == Prepare(st, l.toks)
    IN IF l.err # "none" \/ p.err # "none"
         THEN [err |-> "OperationalError", rows |-> <<>>, st |-> st]
       ELSE
         LET r == Step(st, l.toks, p)
         IN IF r.err # "none" \/ OnlyBlank(l.tail) THEN r
            ELSE [r EXCEPT !.st = executescript(r.st, l.tail).st]

\* the statement l, compiled to p, on the connection of st: text after the
\* first statement is refused (one statement at a time), and only then is
\* the statement run
Run(st, l, p) ==
  IF p.err # "none" THEN [err |-> "OperationalError", rows |-> <<>>, st |-> st]
  ELSE IF ~OnlyBlank(l.tail) THEN [err |-> "ProgrammingError", rows |-> <<>>, st |-> st]
  ELSE Step(st, l.toks, p)

\* the tokenized text l on the connection of st
Compile(st, l) ==
  IF l.err # "none" THEN [err |-> "OperationalError", rows |-> <<>>, st |-> st]
  ELSE Run(st, l, Prepare(st, l.toks))

\* self._db.execute(sql): [err, rows, st].  A closed connection refuses,
\* and self._db is missing when __init__ never set it
execute(st, sql) ==
  IF st.conn # "open" THEN
    [err |-> IF st.conn = "nodb" THEN "AttributeError" ELSE "ProgrammingError",
     rows |-> <<>>, st |-> st]
  ELSE Compile(st, Lex(sql, 1, <<>>))

\* _check_table
_check_table(table_name) == IF table_name \notin DOMAIN TABLES THEN "KeyError" ELSE "none"

\* add_row that keeps one copy of a document (INSERT OR IGNORE on a unique
\* column)
add_row_unique(st, table_name, row) ==
  LET d == dumps(row)
  IN IF _check_table(table_name) # "none" THEN [err |-> "KeyError", st |-> st]
     ELSE IF st.conn = "nodb" THEN [err |-> "AttributeError", st |-> st]
     ELSE IF d.err # "none" THEN [err |-> d.err, st |-> st]
     ELSE IF st.conn # "open" THEN [err |-> "ProgrammingError", st |-> st]
     ELSE IF TABLES[table_name] \notin st.tables THEN [err |-> "OperationalError", st |-> st]
     ELSE IF \E i \in 1..Len(st.rows[TABLES[table_name]]) : st.rows[TABLES[table_name]][i] = d.s
       THEN [err |-> "none", st |-> st]
     ELSE [err |-> "none", st |-> [st EXCEPT !.rows[TABLES[table_name]] = Append(@, d.s)]]

\* add_row: [err, st].  self._db is looked up, then json.dumps(row) is
\* evaluated, then the INSERT with the text as its bound parameter runs.
add_row(st, table_name, row) ==
  LET d == dumps(row)
  IN IF _check_table(table_name) # "none" THEN [err |-> "KeyError", st |-> st]
     ELSE IF st.conn = "nodb" THEN [err |-> "AttributeError", st |-> st]
     ELSE IF d.err # "none" THEN [err |-> d.err, st |-> st]
     ELSE IF st.conn # "open" THEN [err |-> "ProgrammingError", st |-> st]
     ELSE IF TABLES[table_name] \notin st.tables THEN [err |-> "OperationalError", st |-> st]
     ELSE [err |-> "none", st |-> [st EXCEPT !.rows[TABLES[table_name]] = Append(@, d.s)]]

RECURSIVE AddAllLoop(_, _, _, _)
\* for row in rows: self.add_row(table_name, row)
AddAllLoop(st, table_name, rows, i) ==
  IF i > Len(rows) THEN [err |-> "none", st |-> st]
  ELSE
    LET r == add_row(st, table_name, rows[i])
    IN IF r.err # "none" THEN r ELSE AddAllLoop(r.st, table_name, rows, i + 1)

\* add_all that stores the whole list or nothing
add_all_atomic(st, table_name, rows) ==
  IF _check_table(table_name) # "none" THEN [err |-> "KeyError", st |-> st]
  ELSE LET r == AddAllLoop(st, table_name, rows, 1)
       IN IF r.err # "none" THEN [err |-> r.err, st |-> st] ELSE r

\* add_all: [err, st]
add_all(st, table_name, rows) ==
  IF _check_table(table_name) # "none" THEN [err |-> "KeyError", st |-> st]
  ELSE AddAllLoop(st, table_name, rows, 1)

\* the documents of a result: docs is json.loads of every row, in order
Loaded(docs, st) ==
  IF \E n \in 1..Len(docs) : docs[n].err # "none"
    THEN [err |-> "JSONDecodeError", result |-> <<>>, st |-> st]
  ELSE [err |-> "none", result |-> [n \in 1..Len(docs) |-> docs[n].val], st |-> st]

\* [json.loads(row[0]) for row in r]: [err, result, st], for the cursor r
\* that execute returned
Decode(r) ==
  IF r.err # "none" THEN [err |-> r.err, result |-> <<>>, st |-> r.st]
  ELSE Loaded([n \in 1..Len(r.rows) |-> loads(r.rows[n])], r.st)

\* get_all: [err, result, st]
get_all(st, table_name) ==
  IF _check_table(table_name) # "none" THEN [err |-> "KeyError", result |-> <<>>, st |-> st]
  ELSE Decode(execute(st, SelectAll(table_name)))

\* isinstance(v, str): query[k] = f"'{v}'", for the i-th entry of query
Quote(query, i) ==
  IF query[i].val.t = "str"
    THEN [query EXCEPT ![i].val = PyStr(<<"'">> \o query[i].val.v \o <<"'">>)]
  ELSE query

RECURSIVE FindLoop(_, _, _, _, _, _), FindNext(_, _, _, _, _, _)
\* the loop of find from the i-th entry of query on: the entry's value is
\* quoted in the caller's mapping if it is a str, the statement is rendered
\* from the whole mapping as it is now, and its rows are added to results
FindLoop(st, table_name, query, i, results, stmts) ==
  IF i > Len(query)
    THEN [err |-> "none", result |-> results, query |-> query, st |-> st, stmts |-> stmts]
  ELSE FindNext(table_name, Quote(query, i), i, results,
                Append(stmts, SelectWhere(table_name, Quote(query, i))),
                Decode(execute(st, SelectWhere(table_name, Quote(query, i)))))

\* the rest of an iteration of the loop, d being what its statement gave
FindNext(table_name, query, i, results, stmts, d) ==
  IF d.err # "none"
    THEN [err |-> d.err, result |-> <<>>, query |-> query, st |-> d.st, stmts |-> stmts]
  ELSE FindLoop(d.st, table_name, query, i + 1, results \o d.result, stmts)

\* find: [err, result, query (the caller's mapping afterwards), st, stmts
\* (the statements handed to the connection)]
find(st, table_name, query) == FindLoop(st, table_name, query, 1, <<>>, <<>>)

\* the except clause of close: r is what self._db.execute("SELECT 1") gave,
\* and only sqlite3.ProgrammingError is caught
Closed(st, r) ==
  IF r.err = "ProgrammingError" THEN [err |-> "none", st |-> st]
  ELSE IF r.err # "none" THEN [err |-> r.err, st |-> st]
  ELSE [err |-> "none", st |-> [st EXCEPT !.conn = "closed"]]

\* close: [err, st]
close(st) == Closed(st, execute(st, <<"SELECT", " ", "1">>))

\* __init__(f): the file behind f is file; outcome is what the location
\* allows: "ok", "connect" (sqlite3.connect raises: self._db is never set)
\* or "create" (the connection opens but CREATE TABLE raises, as on a
\* read-only file).  CREATE TABLE runs outside a transaction, so the
\* tables it creates are in the file at once.
init(file, outcome) ==
  LET made == [file EXCEPT !.tables = @ \cup {TABLES[n] : n \in DOMAIN TABLES}]
      on(f, c) == [conn |-> c, tables |-> f.tables, rows |-> f.rows, file |-> f]
  IN CASE outcome = "ok" -> [err |-> "none", st |-> on(made, "open")]
       [] outcome = "connect" -> [err |-> "OperationalError", st |-> on(file, "nodb")]
       [] OTHER -> [err |-> "OperationalError", st |-> on(file, "open")]

(* ------------------------------------------------------- inputs of a run *)
DocA == PyDict(<<Item(<<"name">>, PyStr(<<"a">>)), Item(<<"age">>, PyInt(<<"5">>))>>)
DocB == PyDict(<<Item(<<"name">>, PyStr(<<"b">>)), Item(<<"age">>, PyInt(<<"5">>)),
                 Item(<<"flag">>, PyBool(<<"True">>)), Item(<<"note">>, PyStr(<<"q", "\"", "t">>)),
                 Item(<<"address">>, PyDict(<<Item(<<"city">>, PyStr(<<"X">>))>>))>>)
\* a document json.dumps refuses
DocBad == PyDict(<<Item(<<"name">>, PyStr(<<"a">>)), Item(<<"tags">>, PyObj)>>)
Docs == {DocA, DocB, DocBad}

RECURSIVE SeqsUpTo(_, _)
SeqsUpTo(S, n) ==
  IF n = 0 THEN {<<>>}
  ELSE LET shorter == SeqsUpTo(S, n - 1)
       IN shorter \cup {Append(s, e) : s \in {t \in shorter : Len(t) = n - 1}, e \in S}

Batches == SeqsUpTo(Docs, MaxBatch)

TableNames == {"issues", "rules", "bogus"}

QuoteOr == <<"'", " ", "OR", " ", "'", "1", "'", "=", "'", "1">>
QuoteDrop == <<"'", ";", " ", "DROP", " ", "TABLE", " ", "issues", ";", " ", "--">>
Queries ==
  { <<>>,
    <<Item(<<"age">>, PyInt(<<"5">>))>>,
    <<Item(<<"name">>, PyStr(<<"a">>)), Item(<<"age">>, PyInt(<<"5">>))>>,
    <<Item(<<"name">>, PyStr(QuoteOr))>>,
    <<Item(<<"name">>, PyStr(QuoteDrop))>>,
    <<Item(<<"name", "'">>, PyInt(<<"5">>))>>,
    <<Item(<<"address", ".", "city">>, PyStr(<<"X">>))>>,
    <<Item(<<"flag">>, PyBool(<<"True">>))>> }

\* most calls of find in a row on one query object
MaxReuse == 2

(* ------------------------------------------------------------------ state *)
VARIABLES
  db,      \* the engine object: conn ("absent": no object), the tables and
           \* rows its connection sees (saw, once it is closed), and the
           \* file behind it: what a new connection will see
  ref,     \* the caller holds the object (its constructor returned)
  lastOp   \* the last call: arguments, outcome and the state it started in
vars == <<db, ref, lastOp>>

NoFile == [tables |-> {}, rows |-> NoRows]
NoOp == [op |-> "none", table |-> "", row |-> PyNone, batch |-> <<>>, query |-> <<>>,
         err |-> "none", result |-> <<>>, queryAfter |-> <<>>, stmts |-> <<>>,
         calls |-> 0, first |-> <<>>, before |-> [conn |-> "absent"]]

Init ==
  /\ db = [conn |-> "absent", tables |-> {}, rows |-> NoRows, file |-> NoFile]
  /\ ref = FALSE
  /\ lastOp = NoOp

RECURSIVE SumLen(_, _)
SumLen(f, S) ==
  IF S = {} THEN 0 ELSE LET n == CHOOSE n \in S : TRUE IN Len(f[n]) + SumLen(f, S \ {n})
Total(f) == SumLen(f, DOMAIN f)

Usable == ref /\ db.conn \in {"open", "closed"}

\* db = DocumentDatabase(f)
Open(outcome) ==
  /\ db.conn \in {"absent", "closed"}
  /\ \E r \in {init(db.file, outcome)} :
        /\ db' = r.st
        /\ ref' = (r.err = "none")
        /\ lastOp' = [NoOp EXCEPT !.op = "open", !.err = r.err, !.before = db]

AddRow(table_name, row) ==
  /\ Usable
  /\ Total(db.rows) < MaxRows
  /\ \E r \in {add_row(db, table_name, row)} :
        /\ db' = r.st
        /\ lastOp' = [NoOp EXCEPT !.op = "add_row", !.table = table_name, !.row = row,
                                  !.err = r.err, !.before = db]
  /\ UNCHANGED ref

AddAll(table_name, batch) ==
  /\ Usable
  /\ Total(db.rows) + Len(batch) <= MaxRows
  /\ \E r \in {add_all(db, table_name, batch)} :
        /\ db' = r.st
        /\ lastOp' = [NoOp EXCEPT !.op = "add_all", !.table = table_name, !.batch = batch,
                                  !.err = r.err, !.before = db]
  /\ UNCHANGED ref

GetAll(table_name) ==
  /\ Usable
  /\ \E r \in {get_all(db, table_name)} :
        /\ db' = r.st
        /\ lastOp' = [NoOp EXCEPT !.op = "get_all", !.table = table_name, !.err = r.err,
                                  !.result = r.result, !.before = db]
  /\ UNCHANGED ref

\* find(table_name, q) with a mapping the caller has just built
Find(table_name, q) ==
  /\ Usable
  /\ \E r \in {find(db, table_name, q)} :
        /\ db' = r.st
        /\ lastOp' = [NoOp EXCEPT !.op = "find", !.table = table_name, !.query = q,
                                  !.err = r.err, !.result = r.result,
                                  !.queryAfter = r.query, !.stmts = r.stmts, !.calls = 1,
                                  !.before = db]
  /\ UNCHANGED ref

\* find(table_name, q) again, with the mapping the last find was given
FindAgain ==
  /\ Usable
  /\ lastOp.op = "find"
  /\ lastOp.calls < MaxReuse
  /\ \E r \in {find(db, lastOp.table, lastOp.queryAfter)} :
        /\ db' = r.st
        /\ lastOp' = [lastOp EXCEPT !.query = lastOp.queryAfter,
                                    !.err = r.err, !.result = r.result,
                                    !.queryAfter = r.query, !.stmts = r.stmts,
                                    !.calls = @ + 1,
                                    !.first = <<[err |-> lastOp.err, result |-> lastOp.result,
                                                 query |-> lastOp.query]>>,
                                    !.before = db]
  /\ UNCHANGED ref

Close ==
  /\ Usable
  /\ \E r \in {close(db)} :
        /\ db' = r.st
        /\ lastOp' = [NoOp EXCEPT !.op = "close", !.err = r.err, !.before = db]
  /\ UNCHANGED ref

\* the object is collected: __del__ calls close()
Del ==
  /\ db.conn # "absent"
  /\ \E r \in {close(db)} :
        /\ db' = [r.st EXCEPT !.conn = "absent"]
        /\ lastOp' = [NoOp EXCEPT !.op = "__del__", !.err = r.err, !.before = db]
  /\ ref' = FALSE

Next ==
  \/ \E outcome \in {"ok", "connect", "create"} : Open(outcome)
  \/ \E t \in TableNames, d \in Docs : AddRow(t, d)
  \/ \E t \in TableNames, b \in Batches : AddAll(t, b)
  \/ \E t \in TableNames : GetAll(t)
  \/ \E t \in TableNames, q \in Queries : Find(t, q)
  \/ FindAgain
  \/ Close
  \/ Del

Spec == Init /\ [][Next]_vars

(* ------------------------------------------------- vocabulary of claims *)
Registered(t) == t \in DOMAIN TABLES

\* what is stored: the tables and rows the connection holds and the file
Stored(st) == <<st.tables, st.rows, st.file>>

Acted(ops) == lastOp.op \in ops

RECURSIVE Encodable(_)
\* a value made of str, int, bool, None and dicts of them
Encodable(val) ==
  /\ val.t # "obj"
  /\ \A i \in 1..Len(val.sub) : Encodable(val.sub[i].val)

RECURSIVE Labels(_, _)
\* the parts of a field path between its dots
Labels(k, acc) ==
  IF k = <<>> THEN <<acc>>
  ELSE IF Head(k) = "." THEN <<acc>> \o Labels(Tail(k), <<>>)
  ELSE Labels(Tail(k), Append(acc, Head(k)))

\* a dot-separated sequence of identifiers
ValidPath(k) ==
  LET ls == Labels(k, <<>>)
  IN \A i \in 1..Len(ls) : ls[i] # <<>> /\ \A j \in 1..Len(ls[i]) : ls[i][j] \notin Punct

RECURSIVE Member(_, _)
\* the member of document doc at the labels ls, if there is one
Member(doc, ls) ==
  IF ls = <<>> THEN [found |-> TRUE, val |-> doc]
  ELSE IF doc.t # "dict" THEN [found |-> FALSE, val |-> PyNone]
  ELSE LET hit == {n \in 1..Len(doc.sub) : doc.sub[n].k = Head(ls)}
       IN IF hit = {} THEN [found |-> FALSE, val |-> PyNone]
          ELSE Member(doc.sub[CHOOSE n \in hit : TRUE].val, Tail(ls))

\* doc has the required value at every field path of q
Satisfies(doc, q) ==
  \A i \in 1..Len(q) :
    LET m == Member(doc, Labels(q[i].k, <<>>))
    IN m.found /\ PyEq(m.val, q[i].val)

\* the documents of a collection that satisfy q, in storage order
Expected(st, table_name, q) ==
  SelectSeq(get_all(st, table_name).result, LAMBDA d : Satisfies(d, q))

\* a str value without a quote, a semicolon or a comment marker
PlainValue(val) == val.t # "str" \/ \A i \in 1..Len(val.v) : val.v[i] \notin {"'", ";", "--"}

\* the last call was a first find on an open engine and a registered
\* collection with a non-empty query whose field paths are well formed
FoundOnOpen ==
  /\ Acted({"find"}) /\ lastOp.calls = 1
  /\ lastOp.before.conn = "open" /\ Registered(lastOp.table)
  /\ lastOp.query # <<>>

(* ----------------------------------------------------------------- claims *)
\* C1: add_row, add_all, get_all and find on a collection name outside the
\* registry fail with the unknown-collection error (KeyError), whatever the
\* argument, and leave what is stored as it was.
C1_UnknownCollectionFails ==
  (Acted({"add_row", "add_all", "get_all", "find"}) /\ ~Registered(lastOp.table))
    => (lastOp.err = "KeyError" /\ Stored(db) = Stored(lastOp.before))

\* C2: find on a registered collection with a non-empty query of plain
\* scalar values returns without error exactly the stored documents that
\* satisfy every constraint, each once, in storage order.
C2_FindReturnsTheMatches ==
  (FoundOnOpen /\ \A i \in 1..Len(lastOp.query) :
                    ValidPath(lastOp.query[i].k) /\ PlainValue(lastOp.query[i].val))
    => (lastOp.err = "none"
        /\ lastOp.result = Expected(lastOp.before, lastOp.table, lastOp.query))

\* C3: a str used as the value of a one-entry query, whatever characters it
\* holds, makes find return exactly the documents whose field equals it,
\* without error and without a change of what is stored.
C3_ValueNeverAltersLookup ==
  (FoundOnOpen /\ Len(lastOp.query) = 1 /\ lastOp.query[1].val.t = "str"
     /\ ValidPath(lastOp.query[1].k))
    => (/\ lastOp.err = "none"
        /\ lastOp.result = Expected(lastOp.before, lastOp.table, lastOp.query)
        /\ Stored(db) = Stored(lastOp.before))

\* C4: find on a query with a key that is not a dot-separated sequence of
\* identifiers fails with the invalid-field-path error before any statement
\* is handed to the connection, and leaves what is stored as it was.
C4_BadFieldPathRejected ==
  (FoundOnOpen /\ \E i \in 1..Len(lastOp.query) : ~ValidPath(lastOp.query[i].k))
    => (/\ lastOp.err = "InvalidFieldPath"
        /\ lastOp.stmts = <<>>
        /\ Stored(db) = Stored(lastOp.before))

\* C5: on an open engine, add_row of an encodable document to a registered
\* collection returns, and get_all of that collection is then what it was
\* before with one document equal to the added one appended; get_all of
\* every other collection is unchanged.
C5_AddRowAppends ==
  (Acted({"add_row"}) /\ lastOp.before.conn = "open" /\ Registered(lastOp.table)
     /\ Encodable(lastOp.row))
    => LET was == get_all(lastOp.before, lastOp.table)
           is == get_all(db, lastOp.table)
       IN /\ lastOp.err = "none"
          /\ was.err = "none" /\ is.err = "none"
          /\ Len(is.result) = Len(was.result) + 1
          /\ SubSeq(is.result, 1, Len(was.result)) = was.result
          /\ PyEq(is.result[Len(is.result)], lastOp.row)
          /\ \A t \in DOMAIN TABLES \ {lastOp.table} :
               get_all(db, t).result = get_all(lastOp.before, t).result

\* C5 witness: a document equal to one already stored was added
C5_Witness ==
  /\ Acted({"add_row"}) /\ lastOp.err = "none"
  /\ \E i \in 1..Len(get_all(lastOp.before, lastOp.table).result) :
       PyEq(get_all(lastOp.before, lastOp.table).result[i], lastOp.row)

\* the first document of a batch whose add_row fails from the state the
\* batch started in; one past the end if there is none
FirstFailure(st, table_name, batch) ==
  LET fails == {i \in 1..Len(batch) : add_row(st, table_name, batch[i]).err # "none"}
  IN IF fails = {} THEN Len(batch) + 1 ELSE CHOOSE i \in fails : \A j \in fails : i <= j

\* C6: add_all stores exactly the documents before the first one whose
\* add_row fails, in order after what was stored, and raises the error of
\* that add_row; with no failure it stores them all.  (On a name outside
\* the registry the check of add_all itself raises, also for an empty list.)
C6_AddAllIsAddRowInOrder ==
  Acted({"add_all"})
    => LET k == FirstFailure(lastOp.before, lastOp.table, lastOp.batch)
           n == Len(lastOp.batch)
       IN /\ lastOp.err = IF k <= n
                          THEN add_row(lastOp.before, lastOp.table, lastOp.batch[k]).err
                          ELSE IF Registered(lastOp.table) THEN "none" ELSE "KeyError"
          /\ \A t \in DOMAIN TABLES :
               db.rows[t] = IF t = lastOp.table
                            THEN lastOp.before.rows[t]
                                 \o [i \in 1..(k - 1) |-> dumps(lastOp.batch[i]).s]
                            ELSE lastOp.before.rows[t]
          /\ (Registered(lastOp.table) /\ db.conn = "open")
               => LET is == get_all(db, lastOp.table).result
                      was == get_all(lastOp.before, lastOp.table).result
                  IN /\ Len(is) = Len(was) + k - 1
                     /\ \A i \in 1..(k - 1) : PyEq(is[Len(was) + i], lastOp.batch[i])

\* C6 witness: a batch failed at its second document after storing the first
C6_Witness ==
  /\ Acted({"add_all"}) /\ lastOp.err = "TypeError"
  /\ Len(lastOp.batch) = 2
  /\ Len(db.rows[lastOp.table]) = Len(lastOp.before.rows[lastOp.table]) + 1

\* C7: close() never raises, called by the caller or from __del__, whatever
\* state the engine is in, and a closed connection stays closed.
C7_CloseNeverRaises ==
  Acted({"close", "__del__"})
    => (/\ lastOp.err = "none"
        /\ lastOp.before.conn = "closed" => Stored(db) = Stored(lastOp.before))

C9_RowsSurviveClose ==
  (Acted({"open"}) /\ lastOp.err = "none")
    => \A t \in DOMAIN TABLES : db.rows[t] = lastOp.before.rows[t]

\* C10: find leaves the caller's query mapping as it was, and a second find
\* with the same mapping gives the outcome of the first.
C10_QueryNotModified ==
  Acted({"find"})
    => (/\ lastOp.queryAfter = lastOp.query
        /\ lastOp.calls > 1
             => (lastOp.err = lastOp.first[1].err /\ lastOp.result = lastOp.first[1].result))
====
